---- MODULE Spec2Model ----
(***************************************************************************)
(* Model of the build-session client in frontend/app/page.tsx              *)
(* (component AIWebsiteBuilder): the React state of the page, the          *)
(* WebSocket it opens in handleClone, and the handlers that mutate them.   *)
(*                                                                         *)
(* Strings are sequences of one-character strings, so that "" is << >>,    *)
(* concatenation is \o and trim / regex matching are computed.             *)
(*                                                                         *)
(* The handlers ws.onmessage / ws.onclose are closures created inside      *)
(* handleClone.  They read `aiResponse` and `selectedFile` of the render   *)
(* in which handleClone ran, not the current state; every socket record    *)
(* therefore carries the values captured at that moment.  State setters    *)
(* called with a function (prev => ...) do read the current state.         *)
(***************************************************************************)
EXTENDS Integers, Sequences, FiniteSets, TLC

\* ------------------------------------------------------------------ bounds
MaxSockets == 2      \* connections opened in one run (sessions started)
MaxTurns   == 3      \* turns in the Timeline
MaxPending == 5      \* characters held in aiResponse
MaxSent    == 2      \* outbound frames per connection
MaxClock   == 1      \* value of Date.now() relative to page load

\* --------------------------------------------------------- string helpers
Undefined == <<"undefined:">>      \* the JS value undefined (no character is "undefined:")

IsSpace(c) == c = " "

RECURSIVE TrimStart(_)
TrimStart(s) == IF s # << >> /\ IsSpace(Head(s)) THEN TrimStart(Tail(s)) ELSE s

RECURSIVE TrimEnd(_)
TrimEnd(s) ==
    IF s # << >> /\ IsSpace(s[Len(s)]) THEN TrimEnd(SubSeq(s, 1, Len(s) - 1)) ELSE s

\* String.prototype.trim
Trim(s) == TrimEnd(TrimStart(s))

\* does `p` occur in `s` starting at index i
StartsAt(s, i, p) == i + Len(p) - 1 <= Len(s) /\ SubSeq(s, i, i + Len(p) - 1) = p

RECURSIVE NonSpaceRun(_, _)
\* index of the last character of the maximal run of non-space characters
\* that starts at i (i - 1 when s[i] is a space or i is past the end)
NonSpaceRun(s, i) ==
    IF i <= Len(s) /\ ~IsSpace(s[i]) THEN NonSpaceRun(s, i + 1) ELSE i - 1

\* end index of a match of /https?:\/\/[^\s]+/ anchored at i, 0 when none
UrlMatchEnd(s, i) ==
    LET http  == <<"h", "t", "t", "p">>
        https == <<"h", "t", "t", "p", "s">>
        sep   == <<":", "/", "/">>
        \* the regex engine tries "https" first and backtracks to "http"
        body  == IF StartsAt(s, i, https \o sep) THEN i + 8
                 ELSE IF StartsAt(s, i, http \o sep) THEN i + 7
                 ELSE 0
    IN  IF body = 0 THEN 0
        ELSE IF NonSpaceRun(s, body) >= body THEN NonSpaceRun(s, body) ELSE 0

\* input.match(urlRegex): the leftmost match, Undefined when there is none
UrlMatch(s) ==
    LET starts == {i \in 1..Len(s) : UrlMatchEnd(s, i) # 0}
    IN  IF starts = {} THEN Undefined
        ELSE LET i == CHOOSE j \in starts : \A k \in starts : j <= k
             IN  SubSeq(s, i, UrlMatchEnd(s, i))

DefaultUrl ==
    <<"h","t","t","p","s",":","/","/","v","e","r","c","e","l",".","c","o","m","/",
      "t","e","m","p","l","a","t","e","s","/","n","e","x","t",".","j","s","/",
      "n","e","x","t","j","s","-","b","o","i","l","e","r","p","l","a","t","e">>

NoUrlNotice == <<"N","o"," ","U","R","L">>   \* the "No URL detected. ..." notice, abbreviated

\* ----------------------------------------------------------- input sets
Inputs ==
    { << >>, <<" ">>, <<"m">>,
      <<"g","o"," ","h","t","t","p",":","/","/","x"," ","!">> }

Tokens      == { <<"H", "e", "l">>, <<"l", "o">> }
LogMessages == { <<"D">> }
Paths       == { <<"a", "/", "b">>, <<"c">> }

\* inbound frames, after JSON.parse; a frame that does not parse is "unparsable"
LogFrames    == { [parses |-> TRUE, event |-> "log", message |-> m] : m \in LogMessages }
TokenFrames  == { [parses |-> TRUE, event |-> "ai_token", token |-> t] : t \in Tokens }
CreateFrames(paths, contents) ==
    { [parses |-> TRUE, event |-> "file_create", path |-> p, content |-> c,
       old_content |-> Undefined] : p \in paths, c \in contents }
UpdateFrames(paths, contents, olds) ==
    { [parses |-> TRUE, event |-> "file_update", path |-> p, content |-> c,
       old_content |-> o] : p \in paths, c \in contents, o \in olds }
ReadyFrame   == [parses |-> TRUE, event |-> "status", status |-> "ready"]
InertFrames  ==
    { [parses |-> TRUE, event |-> "status", status |-> "cloning"],
      [parses |-> TRUE, event |-> "ping"],
      [parses |-> FALSE, event |-> "none"] }

\* WebSocket.readyState
CONNECTING == "CONNECTING"
OPEN       == "OPEN"
CLOSING    == "CLOSING"
CLOSED     == "CLOSED"

Null == 0            \* websocketRef.current === null (socket ids start at 1)

VARIABLES
    isBuilding,      \* useState(false)
    files,           \* Map<string, FileNode>, in insertion order
    selectedFile,    \* focused path, "" when unset
    isLive,          \* useState(false)
    aiResponse,      \* pending streamed text
    websocketRef,    \* id of the current socket or Null
    messages,        \* useChat messages: the Timeline
    input,           \* useChat input
    sockets,         \* every WebSocket created so far, by id
    now,             \* Date.now()
    received         \* history: tokens delivered since the session started

vars == <<isBuilding, files, selectedFile, isLive, aiResponse, websocketRef,
          messages, input, sockets, now, received>>

\* lines 167 and 660: the landing page is rendered while !isBuilding, the chat
\* and panels while isBuilding, the preview once isLive
SessionState ==
    IF ~isBuilding THEN "Idle" ELSE IF isLive THEN "Live" ELSE "Building"

\* a view that pushes the streaming turn whatever aiResponse holds
displayedMessagesAlwaysPushes ==
    Append(messages, [id |-> "ai-streaming", role |-> "assistant",
                      content |-> aiResponse, src |-> "streaming"])

\* lines 162-165: the turns handed to the chat panel
displayedMessages ==
    IF aiResponse # << >>
    THEN Append(messages, [id |-> "ai-streaming", role |-> "assistant",
                           content |-> aiResponse, src |-> "streaming"])
    ELSE messages

\* ------------------------------------------------------- data operations
\* { id: Date.now().toString(), role, content }; `src` is a history field that
\* records which append produced the turn.  Number -> decimal string is
\* injective, so the id is kept as the number.
Turn(role, content, src) == [id |-> now, role |-> role, content |-> content, src |-> src]

\* Map.prototype.get(path)?.content
MapHas(m, key) == \E i \in 1..Len(m) : m[i].key = key
MapGet(m, key) == m[CHOOSE i \in 1..Len(m) : m[i].key = key]
ContentOf(m, path) == IF MapHas(m, path) THEN MapGet(m, path).content ELSE Undefined

\* a setter that starts from an empty Map instead of copying prev
MapSetFresh(m, key, node) ==
    <<[key |-> key, path |-> node.path, content |-> node.content,
       oldContent |-> node.oldContent]>>

\* new Map(prev).set(key, node): an existing key keeps its position.  An
\* entry of the store is the key with the fields of its FileNode.

MapSet(m, key, node) ==
    LET entry == [key |-> key, path |-> node.path, content |-> node.content,
                  oldContent |-> node.oldContent]
    IN  IF MapHas(m, key)
        THEN [i \in 1..Len(m) |-> IF m[i].key = key THEN entry ELSE m[i]]
        ELSE Append(m, entry)

\* ------------------------------------------------------ the file tree
\* String.prototype.split("/"): the segments between the separators, empty
\* segments included
RECURSIVE SplitFrom(_, _, _)
SplitFrom(path, i, cur) ==
    IF i > Len(path) THEN <<cur>>
    ELSE IF path[i] = "/" THEN <<cur>> \o SplitFrom(path, i + 1, << >>)
    ELSE SplitFrom(path, i + 1, Append(cur, path[i]))

Split(path) == SplitFrom(path, 1, << >>)

\* The tree is kept flat: nodes in the order they were pushed, each with the
\* index of the node whose `children` array holds it; the top-level array
\* `acc` is level Root.  The children of a level are its nodes in this order.
Root == 0

\* a lookup that never finds the node pushed earlier
FindExistingNever(nodes, level, part) == {}

\* line 572: currentLevel.find((i) => i.name === part)
FindExisting(nodes, level, part) ==
    { i \in 1..Len(nodes) : nodes[i].parent = level /\ nodes[i].name = part }

\* line 574: the node pushed for a segment that was not found
NewNode(level, part, isFile) ==
    [parent |-> level, name |-> part, type |-> IF isFile THEN "file" ELSE "folder"]

\* lines 570-580: the forEach over the segments of one path.  `defined` is
\* FALSE once currentLevel is the `children` of a file node (undefined), and
\* the find of the next segment then throws.
RECURSIVE WalkParts(_, _, _, _, _)
WalkParts(nodes, level, defined, parts, index) ==
    IF index > Len(parts) THEN [nodes |-> nodes, ok |-> TRUE]
    ELSE IF ~defined THEN [nodes |-> nodes, ok |-> FALSE]
    ELSE LET isFile   == index = Len(parts)
             found    == FindExisting(nodes, level, parts[index])
             pushed   == IF found = {}
                         THEN Append(nodes, NewNode(level, parts[index], isFile))
                         ELSE nodes
             existing == IF found = {} THEN Len(pushed)
                         ELSE CHOOSE i \in found : \A j \in found : i <= j
         IN  IF isFile
             THEN WalkParts(pushed, level, TRUE, parts, index + 1)
             ELSE WalkParts(pushed, existing, pushed[existing].type = "folder",
                            parts, index + 1)

\* lines 567-584: the reduce over files.keys(), in insertion order; a throw
\* ends the render with no tree
RECURSIVE ReducePaths(_, _, _)
ReducePaths(acc, m, k) ==
    IF k > Len(m) \/ ~acc.ok THEN acc
    ELSE ReducePaths(WalkParts(acc.nodes, Root, TRUE, Split(m[k].key), 1), m, k + 1)

fileTree(m) == ReducePaths([nodes |-> << >>, ok |-> TRUE], m, 1)

\* line 588: currentPath = path ? `${path}/${node.name}` : node.name
RECURSIVE CurrentPath(_, _)
CurrentPath(nodes, i) ==
    IF nodes[i].parent = Root THEN nodes[i].name
    ELSE LET path == CurrentPath(nodes, nodes[i].parent)
         IN  IF path = << >> THEN nodes[i].name ELSE path \o <<"/">> \o nodes[i].name

\* a tree whose folder rows select too
ClickablePathsOfAnyKind(tree) ==
    IF tree.ok THEN { CurrentPath(tree.nodes, i) : i \in 1..Len(tree.nodes) } ELSE {}

\* lines 609-614: the rows with an onFileSelect handler are the file nodes
ClickablePaths(tree) ==
    IF tree.ok
    THEN { CurrentPath(tree.nodes, i) :
             i \in { j \in 1..Len(tree.nodes) : tree.nodes[j].type = "file" } }
    ELSE {}

\* an oldContent that is always what the store held before
OldContentAlwaysPrevious(f, prev) == ContentOf(prev, f.path)

\* line 92: oldContent of the record written by a file event
OldContent(f, prev) ==
    IF f.event = "file_update" THEN f.old_content ELSE ContentOf(prev, f.path)

\* a flush without the `if (aiResponse)` test
ShouldFlushAlways(captured) == TRUE

\* lines 79-82, 99-102, 111-114: `if (aiResponse) { append; setAiResponse("") }`
\* where aiResponse is the value the closure captured
ShouldFlush(captured) == captured # << >>

\* a focus test with the negation dropped
ShouldFocusInverted(captured) == captured # << >>

\* line 96: `if (!selectedFile)` on the captured value
ShouldFocus(captured) == captured = << >>

\* a guard that also waits for the ready status
ModificationGuardRequiresLive(inp, ref, socks) ==
    /\ Trim(inp) # << >>
    /\ ref # Null
    /\ socks[ref].readyState = OPEN
    /\ isLive

\* a guard that forgets the readyState test
ModificationGuardSkipsReadyState(inp, ref, socks) ==
    /\ Trim(inp) # << >>
    /\ ref # Null

\* line 145: the guard of handleModificationSubmit (TRUE = proceed)
ModificationGuard(inp, ref, socks) ==
    /\ Trim(inp) # << >>
    /\ ref # Null
    /\ socks[ref].readyState = OPEN

\* WebSocket.send: queued only on an open socket
Send(sock, frame) ==
    IF sock.readyState = OPEN THEN [sock EXCEPT !.sent = Append(@, frame)] ELSE sock

\* a setter that puts the token in front
AppendTokenPrepends(prev, token) == token \o prev

\* a setter that stores the token instead of appending it
AppendTokenOverwrites(prev, token) == token

\* line 85: prev => prev + data.token
AppendToken(prev, token) == prev \o token

\* ------------------------------------------------------------------ Init
Init ==
    /\ isBuilding = FALSE
    /\ files = << >>
    /\ selectedFile = << >>
    /\ isLive = FALSE
    /\ aiResponse = << >>
    /\ websocketRef = Null
    /\ messages = << >>
    /\ input = << >>
    /\ sockets = << >>
    /\ now = 0
    /\ received = << >>

\* --------------------------------------------------------------- actions
\* the clock advances
Tick ==
    /\ now < MaxClock
    /\ now' = now + 1
    /\ UNCHANGED <<isBuilding, files, selectedFile, isLive, aiResponse, websocketRef,
                   messages, input, sockets, received>>

\* typing in either input box
HandleInputChange(text) ==
    /\ text # input
    /\ input' = text
    /\ UNCHANGED <<isBuilding, files, selectedFile, isLive, aiResponse, websocketRef,
                   messages, sockets, now, received>>

\* lines 63-116: the state handleClone leaves; the handlers it installs are
\* the Ws* actions below
NewSocket(url) ==
    [readyState |-> CONNECTING, url |-> url, sent |-> << >>,
     aiResponse |-> aiResponse, selectedFile |-> selectedFile]

\* lines 118-141, the landing form (rendered only while !isBuilding)
HandleInitialSubmit ==
    /\ ~isBuilding
    /\ Len(sockets) < MaxSockets
    /\ LET foundUrl == UrlMatch(input)
           userTurn == IF Trim(input) # << >> THEN <<Turn("user", input, "submit")>> ELSE << >>
           notice   == IF foundUrl = Undefined
                       THEN <<Turn("assistant", NoUrlNotice, "notice")>> ELSE << >>
           url      == IF foundUrl = Undefined THEN DefaultUrl ELSE foundUrl
       IN  /\ Len(messages) + Len(userTurn) + Len(notice) <= MaxTurns
           /\ messages' = messages \o userTurn \o notice
           /\ sockets' = Append(sockets, NewSocket(url))
           /\ websocketRef' = Len(sockets) + 1
    /\ isBuilding' = TRUE
    /\ input' = << >>
    /\ received' = << >>
    /\ UNCHANGED <<files, selectedFile, isLive, aiResponse, now>>

\* an onopen that sends nothing
WsOpenWithoutStart(s) ==
    /\ sockets[s].readyState = CONNECTING
    /\ sockets' = [sockets EXCEPT ![s].readyState = OPEN]
    /\ UNCHANGED <<isBuilding, files, selectedFile, isLive, aiResponse, websocketRef,
                   messages, input, now, received>>

\* lines 70-72: the connection is established, onopen sends the Start frame
WsOpen(s) ==
    /\ sockets[s].readyState = CONNECTING
    /\ sockets' = [sockets EXCEPT ![s] =
                      Send([@ EXCEPT !.readyState = OPEN], [type |-> "start", body |-> @.url])]
    /\ UNCHANGED <<isBuilding, files, selectedFile, isLive, aiResponse, websocketRef,
                   messages, input, now, received>>

\* a log branch whose setter drops `...prev`
OnLogReplacesTimeline(s, f) ==
    /\ messages' = <<Turn("assistant", f.message, "log")>>
    /\ UNCHANGED <<files, selectedFile, isLive, received, aiResponse>>

\* lines 78-83
OnLog(s, f) ==
    LET flush == IF ShouldFlush(sockets[s].aiResponse)
                 THEN <<Turn("assistant", sockets[s].aiResponse, "token")>> ELSE << >>
    IN  /\ Len(messages) + Len(flush) + 1 <= MaxTurns
        /\ messages' = messages \o flush \o <<Turn("assistant", f.message, "log")>>
        /\ aiResponse' = IF ShouldFlush(sockets[s].aiResponse) THEN << >> ELSE aiResponse
        /\ UNCHANGED <<files, selectedFile, isLive, received>>

\* lines 84-85
OnAiToken(s, f) ==
    /\ Len(aiResponse) + Len(f.token) <= MaxPending
    /\ aiResponse' = AppendToken(aiResponse, f.token)
    /\ received' = received \o f.token
    /\ UNCHANGED <<files, selectedFile, isLive, messages>>

\* lines 86-96
OnFile(s, f) ==
    /\ files' = MapSet(files, f.path, [path |-> f.path, content |-> f.content,
                                       oldContent |-> OldContent(f, files)])
    /\ selectedFile' = IF ShouldFocus(sockets[s].selectedFile) THEN f.path ELSE selectedFile
    /\ UNCHANGED <<isLive, aiResponse, messages, received>>

\* a ready branch without setIsLive(true)
OnReadyWithoutLive(s, f) ==
    LET flush == IF ShouldFlush(sockets[s].aiResponse)
                 THEN <<Turn("assistant", sockets[s].aiResponse, "token")>> ELSE << >>
    IN  /\ Len(messages) + Len(flush) <= MaxTurns
        /\ messages' = messages \o flush
        /\ aiResponse' = IF ShouldFlush(sockets[s].aiResponse) THEN << >> ELSE aiResponse
        /\ UNCHANGED <<files, selectedFile, received, isLive>>

\* lines 97-103
OnReady(s, f) ==
    LET flush == IF ShouldFlush(sockets[s].aiResponse)
                 THEN <<Turn("assistant", sockets[s].aiResponse, "token")>> ELSE << >>
    IN  /\ Len(messages) + Len(flush) <= MaxTurns
        /\ isLive' = TRUE
        /\ messages' = messages \o flush
        /\ aiResponse' = IF ShouldFlush(sockets[s].aiResponse) THEN << >> ELSE aiResponse
        /\ UNCHANGED <<files, selectedFile, received>>

\* a dispatcher whose status branch forgets `data.status === "ready"`
WsMessageAnyStatusReady(s, f) ==
    /\ sockets[s].readyState = OPEN
    /\ IF ~f.parses
       THEN UNCHANGED <<files, selectedFile, isLive, aiResponse, messages, received>>
       ELSE CASE f.event = "log" -> OnLog(s, f)
              [] f.event = "ai_token" -> OnAiToken(s, f)
              [] f.event \in {"file_create", "file_update"} -> OnFile(s, f)
              [] f.event = "status" -> OnReady(s, f)
              [] OTHER -> UNCHANGED <<files, selectedFile, isLive, aiResponse,
                                      messages, received>>
    /\ UNCHANGED <<isBuilding, websocketRef, input, sockets, now>>

\* lines 74-104: a frame is delivered only to a socket that is OPEN
WsMessage(s, f) ==
    /\ sockets[s].readyState = OPEN
    /\ IF ~f.parses
       THEN \* JSON.parse throws inside the handler: nothing is set
            UNCHANGED <<files, selectedFile, isLive, aiResponse, messages, received>>
       ELSE CASE f.event = "log" -> OnLog(s, f)
              [] f.event = "ai_token" -> OnAiToken(s, f)
              [] f.event \in {"file_create", "file_update"} -> OnFile(s, f)
              [] f.event = "status" /\ f.status = "ready" -> OnReady(s, f)
              [] OTHER -> UNCHANGED <<files, selectedFile, isLive, aiResponse,
                                      messages, received>>
    /\ UNCHANGED <<isBuilding, websocketRef, input, sockets, now>>

\* lines 106-108: onerror only logs to the console
WsError(s) ==
    /\ sockets[s].readyState # CLOSED
    /\ UNCHANGED <<isBuilding, files, selectedFile, isLive, aiResponse, websocketRef,
                   messages, input, sockets, now, received>>

\* an onclose that also empties the file store
WsCloseClearsFiles(s) ==
    /\ sockets[s].readyState # CLOSED
    /\ sockets' = [sockets EXCEPT ![s].readyState = CLOSED]
    /\ files' = << >>
    /\ UNCHANGED <<isBuilding, selectedFile, isLive, aiResponse, websocketRef, messages,
                   input, now, received>>

\* an onclose that sends the page back to the landing form
WsCloseRevertsToIdle(s) ==
    /\ sockets[s].readyState # CLOSED
    /\ sockets' = [sockets EXCEPT ![s].readyState = CLOSED]
    /\ isBuilding' = FALSE
    /\ UNCHANGED <<files, selectedFile, isLive, aiResponse, websocketRef, messages,
                   input, now, received>>

\* lines 110-115: the connection ends (closed by the peer, dropped, or the
\* close() of handleReset completing) and onclose runs
WsClose(s) ==
    LET flush == IF ShouldFlush(sockets[s].aiResponse)
                 THEN <<Turn("assistant", sockets[s].aiResponse, "token")>> ELSE << >>
    IN  /\ sockets[s].readyState # CLOSED
        /\ Len(messages) + Len(flush) <= MaxTurns
        /\ sockets' = [sockets EXCEPT ![s].readyState = CLOSED]
        /\ messages' = messages \o flush
        /\ aiResponse' = IF ShouldFlush(sockets[s].aiResponse) THEN << >> ELSE aiResponse
        /\ UNCHANGED <<isBuilding, files, selectedFile, isLive, websocketRef, input,
                       now, received>>

\* a handler that builds the frame from the input after clearing it
HandleModificationSubmitSendsClearedInput ==
    /\ isBuilding
    /\ IF ModificationGuard(input, websocketRef, sockets)
       THEN /\ Len(messages) < MaxTurns
            /\ Len(sockets[websocketRef].sent) < MaxSent
            /\ messages' = Append(messages, Turn("user", input, "modification"))
            /\ sockets' = [sockets EXCEPT ![websocketRef] =
                              Send(@, [type |-> "modification", body |-> << >>])]
            /\ input' = << >>
       ELSE UNCHANGED <<messages, sockets, input>>
    /\ UNCHANGED <<isBuilding, files, selectedFile, isLive, aiResponse, websocketRef,
                   now, received>>

\* lines 143-158, the chat form (rendered only while isBuilding)
HandleModificationSubmit ==
    /\ isBuilding
    /\ IF ModificationGuard(input, websocketRef, sockets)
       THEN /\ Len(messages) < MaxTurns
            /\ Len(sockets[websocketRef].sent) < MaxSent
            /\ messages' = Append(messages, Turn("user", input, "modification"))
            /\ sockets' = [sockets EXCEPT ![websocketRef] =
                              Send(@, [type |-> "modification", body |-> input])]
            /\ input' = << >>
       ELSE UNCHANGED <<messages, sockets, input>>
    /\ UNCHANGED <<isBuilding, files, selectedFile, isLive, aiResponse, websocketRef,
                   now, received>>

\* a reset without setIsLive(false)
HandleResetKeepsLive ==
    /\ isBuilding
    /\ sockets' = IF websocketRef # Null
                  THEN [sockets EXCEPT ![websocketRef].readyState =
                           IF @ = CLOSED THEN CLOSED ELSE CLOSING]
                  ELSE sockets
    /\ websocketRef' = Null
    /\ isBuilding' = FALSE
    /\ files' = << >>
    /\ selectedFile' = << >>
    /\ aiResponse' = << >>
    /\ messages' = << >>
    /\ received' = << >>
    /\ UNCHANGED <<input, now, isLive>>

\* a reset that drops the handle without calling close()
HandleResetWithoutClose ==
    /\ isBuilding
    /\ websocketRef' = Null
    /\ isBuilding' = FALSE
    /\ files' = << >>
    /\ selectedFile' = << >>
    /\ isLive' = FALSE
    /\ aiResponse' = << >>
    /\ messages' = << >>
    /\ received' = << >>
    /\ UNCHANGED <<input, now, sockets>>

\* a reset without setAiResponse("")
HandleResetKeepsPending ==
    /\ isBuilding
    /\ sockets' = IF websocketRef # Null
                  THEN [sockets EXCEPT ![websocketRef].readyState =
                           IF @ = CLOSED THEN CLOSED ELSE CLOSING]
                  ELSE sockets
    /\ websocketRef' = Null
    /\ isBuilding' = FALSE
    /\ files' = << >>
    /\ selectedFile' = << >>
    /\ isLive' = FALSE
    /\ messages' = << >>
    /\ received' = << >>
    /\ UNCHANGED <<input, now, aiResponse>>

\* lines 50-61, the header button of the chat panel
HandleReset ==
    /\ isBuilding
    /\ sockets' = IF websocketRef # Null
                  THEN [sockets EXCEPT ![websocketRef].readyState =
                           IF @ = CLOSED THEN CLOSED ELSE CLOSING]
                  ELSE sockets
    /\ websocketRef' = Null
    /\ isBuilding' = FALSE
    /\ files' = << >>
    /\ selectedFile' = << >>
    /\ isLive' = FALSE
    /\ aiResponse' = << >>
    /\ messages' = << >>
    /\ received' = << >>
    /\ UNCHANGED <<input, now>>

\* line 187 / 615: clicking a file of the explorer
OnFileSelect(path) ==
    /\ isBuilding
    /\ path \in ClickablePaths(fileTree(files))
    /\ selectedFile' = path
    /\ UNCHANGED <<isBuilding, files, isLive, aiResponse, websocketRef, messages, input,
                   sockets, now, received>>

\* one step of the page, the environment drawing frames and typed text from
\* the given sets (Date.now() does not advance)
Step(frames, inputs) ==
    \/ \E text \in inputs : HandleInputChange(text)
    \/ HandleInitialSubmit
    \/ \E s \in 1..Len(sockets) : WsOpen(s)
    \/ \E s \in 1..Len(sockets), f \in frames : WsMessage(s, f)
    \/ \E s \in 1..Len(sockets) : WsError(s)
    \/ \E s \in 1..Len(sockets) : WsClose(s)
    \/ HandleModificationSubmit
    \/ HandleReset
    \/ \E path \in ClickablePaths(fileTree(files)) : OnFileSelect(path)

\* the streaming protocol: log / token / status frames and one file
StreamFrames ==
    LogFrames \cup TokenFrames \cup {ReadyFrame} \cup InertFrames
        \cup CreateFrames({<<"c">>}, {<<"1">>})
StreamInputs == { << >>, <<"m">> }
NextStream == Step(StreamFrames, StreamInputs)
Spec == Init /\ [][NextStream]_vars

\* the file protocol: creates and updates on two paths, then ready
FileFrames ==
    CreateFrames(Paths, {<<"1">>})
        \cup UpdateFrames(Paths, {<<"2">>}, {Undefined, <<"0">>})
        \cup {ReadyFrame}
FileInputs == { << >>, <<"m">> }
NextFiles == Step(FileFrames, FileInputs)
SpecFiles == Init /\ [][NextFiles]_vars

\* the session lifecycle: blank and URL-bearing typed text, few frames
SessionFrames == {ReadyFrame} \cup {[parses |-> TRUE, event |-> "ai_token", token |-> <<"l", "o">>]}
                     \cup CreateFrames({<<"c">>}, {<<"1">>})
SessionInputs == Inputs \ StreamInputs
NextSession == Step(SessionFrames, SessionInputs)
SpecSession == Init /\ [][NextSession]_vars

\* the clock advancing between handlers
ClockFrames == LogFrames \cup CreateFrames({<<"c">>}, {<<"1">>})
ClockInputs == { << >>, <<"m">> }
NextClock == Tick \/ Step(ClockFrames, ClockInputs)
SpecClock == Init /\ [][NextClock]_vars

\* the explorer: paths that share folders, and a path that is also a folder
\* of another
TreePaths == { <<"a">>, <<"a", "/", "b", "/", "c">>, <<"a", "/", "b", "/", "d">> }
TreeFrames == CreateFrames(TreePaths, {<<"1">>})
TreeInputs == { <<"m">> }
NextTree == Step(TreeFrames, TreeInputs)
SpecTree == Init /\ [][NextTree]_vars

\* ------------------------------------------------------------ properties
IsTurn(t, role, content) == t.role = role /\ t.content = content

HasTurn(src) == \E i \in 1..Len(messages) : messages[i].src = src

\* the turns of `after` that follow the Timeline `before`, when it extends it
Extends(before, after) ==
    /\ Len(after) >= Len(before)
    /\ SubSeq(after, 1, Len(before)) = before

\* C1: handling a log frame while the pending text is non-empty appends two
\* assistant turns, the pending text and then the log message, and empties
\* the pending text.
C1_LogFlushesPending ==
    [][\A s \in 1..Len(sockets), f \in LogFrames :
          (WsMessage(s, f) /\ aiResponse # << >>) =>
              /\ Len(messages') = Len(messages) + 2
              /\ Extends(messages, messages')
              /\ IsTurn(messages'[Len(messages) + 1], "assistant", aiResponse)
              /\ IsTurn(messages'[Len(messages) + 2], "assistant", f.message)
              /\ aiResponse' = << >>]_vars

\* C2: a file_update without old_content on a path that has a record leaves
\* the record's oldContent equal to the content it held just before.
C2_UpdateKeepsPriorContent ==
    [][\A s \in 1..Len(sockets), f \in UpdateFrames(Paths, {<<"2">>}, {Undefined}) :
          (WsMessage(s, f) /\ MapHas(files, f.path)) =>
              /\ MapHas(files', f.path)
              /\ MapGet(files', f.path).oldContent = MapGet(files, f.path).content]_vars

\* C3: once a focused path is set, file_create / file_update frames leave it
\* unchanged; only select-file and reset change a set focus.
C3_FocusFirstWriteWins ==
    [][/\ \A s \in 1..Len(sockets), f \in FileFrames \ {ReadyFrame} :
            (WsMessage(s, f) /\ selectedFile # << >>) => selectedFile' = selectedFile
       /\ (selectedFile # << >> /\ selectedFile' # selectedFile) =>
            (HandleReset \/ \E p \in Paths : OnFileSelect(p))]_vars

\* the state reset() must leave
Cleared ==
    /\ messages = << >>
    /\ files = << >>
    /\ aiResponse = << >>
    /\ selectedFile = << >>
    /\ websocketRef = Null
    /\ ~isBuilding
    /\ ~isLive

\* C4: the state right after reset(), from any state, has an empty Timeline,
\* file store and pending text, no focused path, no connection handle (the
\* socket it held is closing or closed) and is Idle; no Idle state is ever
\* only partly cleared.
C4_ResetCompleteness ==
    [][/\ HandleReset =>
            /\ Cleared'
            /\ websocketRef # Null => sockets'[websocketRef].readyState \in {CLOSING, CLOSED}
       /\ ~isBuilding' => Cleared']_vars

\* a reset of a session that had an open connection with frames sent on it
C4_Witness ==
    /\ ~isBuilding
    /\ \E s \in 1..Len(sockets) :
          sockets[s].readyState = CLOSING /\ Len(sockets[s].sent) > 1

\* C5: when the connection closes while the pending text is non-empty, the
\* pending text is appended as one assistant turn and the pending text is
\* cleared.
C5_CloseFlushesPending ==
    [][\A s \in 1..Len(sockets) :
          (WsClose(s) /\ aiResponse # << >>) =>
              /\ Len(messages') = Len(messages) + 1
              /\ Extends(messages, messages')
              /\ IsTurn(messages'[Len(messages')], "assistant", aiResponse)
              /\ aiResponse' = << >>]_vars

\* the text of the turns that a flush of the pending text produced, in order
RECURSIVE FlushedText(_)
FlushedText(ms) ==
    IF ms = << >> THEN << >>
    ELSE (IF Head(ms).src = "token" THEN Head(ms).content ELSE << >>)
             \o FlushedText(Tail(ms))

\* C6: in every state the tokens received in the session, concatenated in
\* arrival order, equal the token-derived turns of the Timeline, in order,
\* followed by the pending text.
C6_NoStreamedTextDropped == received = FlushedText(messages) \o aiResponse

\* two tokens were streamed, then a log, a ready status and a close followed
C6_Witness ==
    /\ received = <<"H", "e", "l", "l", "o">>
    /\ HasTurn("log")
    /\ isLive
    /\ websocketRef # Null
    /\ sockets[websocketRef].readyState = CLOSED

\* C7: handling status=ready while the pending text is non-empty appends the
\* pending text as one assistant turn and empties the pending text.
C7_ReadyFlushesPending ==
    [][\A s \in 1..Len(sockets) :
          (WsMessage(s, ReadyFrame) /\ aiResponse # << >>) =>
              /\ Len(messages') = Len(messages) + 1
              /\ Extends(messages, messages')
              /\ IsTurn(messages'[Len(messages')], "assistant", aiResponse)
              /\ aiResponse' = << >>]_vars

\* the ready frame can be handled on every open connection of a Building
\* session, and handling it leaves the session Live
ReadyMakesLive ==
    \A s \in 1..Len(sockets) :
        (isBuilding /\ sockets[s].readyState = OPEN) =>
            /\ ENABLED WsMessage(s, ReadyFrame)
            /\ ~ENABLED (WsMessage(s, ReadyFrame) /\ ~(isBuilding' /\ isLive'))

\* C8: a ready status handled in a Building session makes it Live (on every
\* open connection of a Building session the ready frame can be handled, and
\* handling it leaves the session Live), and a Live session stays Live under
\* every step that is not a reset.
C8_ReadyMakesLiveUntilReset ==
    /\ []ReadyMakesLive
    /\ [][(isBuilding /\ isLive /\ ~HandleReset) => (isBuilding' /\ isLive')]_vars

\* a Live session after a modification was accepted and the connection closed
C8_Witness ==
    /\ isBuilding /\ isLive
    /\ HasTurn("modification")
    /\ sockets[websocketRef].readyState = CLOSED

\* the effect of an accepted modification submit
ModifyAccepted ==
    /\ messages' = Append(messages, Turn("user", input, "modification"))
    /\ sockets' = [sockets EXCEPT ![websocketRef].sent =
                      Append(@, [type |-> "modification", body |-> input])]
    /\ input' = << >>

\* C9: a modification with non-blank text submitted on an open connection
\* is accepted whether or not the session is Live: the submit appends the
\* user turn and sends the Modify frame {type: "modification", prompt}.
C9_ModifyAcceptedWhileBuilding ==
    (/\ isBuilding
     /\ Trim(input) # << >>
     /\ websocketRef # Null
     /\ sockets[websocketRef].readyState = OPEN
     /\ Len(messages) < MaxTurns
     /\ Len(sockets[websocketRef].sent) < MaxSent) =>
        /\ ENABLED (HandleModificationSubmit /\ ModifyAccepted)
        /\ ~ENABLED (HandleModificationSubmit /\ ~ModifyAccepted)

\* a Modify frame was sent on the connection of a session that is not Live
C9_Witness ==
    /\ isBuilding /\ ~isLive
    /\ \E i \in 1..Len(sockets[websocketRef].sent) :
          sockets[websocketRef].sent[i].type = "modification"

\* C10: a modification submit with no connection handle, or with a connection
\* that is not open, sends nothing, appends no turn and changes no state.
C10_GuardViolationIsNoOp ==
    [][(/\ HandleModificationSubmit
        /\ (websocketRef = Null \/ sockets[websocketRef].readyState # OPEN)) =>
            UNCHANGED <<messages, sockets, isBuilding, isLive, files, aiResponse,
                        selectedFile, websocketRef, input>>]_vars

\* non-blank text in the chat box of a session whose connection has closed,
\* with text still pending: the state a refused submit starts from and leaves
C10_Witness ==
    /\ isBuilding
    /\ Trim(input) # << >>
    /\ websocketRef # Null
    /\ sockets[websocketRef].readyState = CLOSED
    /\ aiResponse # << >>
    /\ messages # << >>

\* C11: session transitions are one-way: Idle is left only by submit-target
\* and only for Building, Building is left only for Live on a ready status or
\* for Idle on reset, and Live is left only for Idle on reset.
C11_OneWayTransitions ==
    [][/\ (SessionState = "Idle" /\ SessionState' # "Idle") =>
            (SessionState' = "Building" /\ HandleInitialSubmit)
       /\ (SessionState = "Building" /\ SessionState' # "Building") =>
            \/ SessionState' = "Live" /\ \E s \in 1..Len(sockets) : WsMessage(s, ReadyFrame)
            \/ SessionState' = "Idle" /\ HandleReset
       /\ (SessionState = "Live" /\ SessionState' # "Live") =>
            (SessionState' = "Idle" /\ HandleReset)]_vars

\* a second session that went Live and whose connection then closed
C11_Witness ==
    /\ Len(sockets) = 2
    /\ SessionState = "Live"
    /\ sockets[2].readyState = CLOSED

\* every socket except the one the handle refers to has had close() called
OnlyHandleActive ==
    \A s \in 1..Len(sockets) :
        s # websocketRef => sockets[s].readyState \in {CLOSING, CLOSED}

\* C12: at most one connection is active at any time (every socket other
\* than the held one is closing or closed), a connection is opened only when
\* no handle is held, and no message, error or close event of a socket
\* other than the held one changes the Timeline, file store, pending text,
\* focus or session state.
C12_OneActiveConnection ==
    /\ []OnlyHandleActive
    /\ [][/\ HandleInitialSubmit => websocketRef = Null
          /\ \A s \in 1..Len(sockets) :
                (/\ s # websocketRef
                 /\ \/ WsError(s)
                    \/ WsClose(s)
                    \/ \E f \in StreamFrames : WsMessage(s, f)) =>
                    UNCHANGED <<messages, files, aiResponse, selectedFile,
                                isBuilding, isLive>>]_vars

\* a second session with pending text and a file while the first session's
\* socket is still closing
C12_Witness ==
    /\ Len(sockets) = 2
    /\ websocketRef = 2
    /\ sockets[1].readyState = CLOSING
    /\ sockets[2].readyState = OPEN
    /\ aiResponse # << >>
    /\ files # << >>

\* C13: after a file_create for path P the record of P holds the payload
\* content and no prior content, whatever the store held before, and a record
\* gains a prior content only in a file_update step.
C13_CreateLeavesPriorUnset ==
    [][/\ \A s \in 1..Len(sockets), f \in CreateFrames(Paths, {<<"1">>}) :
            WsMessage(s, f) =>
                /\ MapHas(files', f.path)
                /\ MapGet(files', f.path).content = f.content
                /\ MapGet(files', f.path).oldContent = Undefined
       /\ \A p \in Paths :
            (/\ MapHas(files', p)
             /\ MapGet(files', p).oldContent # Undefined
             /\ ~(MapHas(files, p) /\ MapGet(files, p).oldContent # Undefined)) =>
                \E s \in 1..Len(sockets),
                   f \in UpdateFrames({p}, {<<"2">>}, {Undefined, <<"0">>}) :
                    WsMessage(s, f)]_vars

\* C14: after a file_update for path P that carries old_content, the record
\* of P holds the payload content and the payload's old_content, whether or
\* not P had a record and whatever it held.
C14_UpdateTakesExplicitOld ==
    [][\A s \in 1..Len(sockets), f \in UpdateFrames(Paths, {<<"2">>}, {<<"0">>}) :
            WsMessage(s, f) =>
                /\ MapHas(files', f.path)
                /\ MapGet(files', f.path).content = f.content
                /\ MapGet(files', f.path).oldContent = f.old_content]_vars

\* both paths hold an updated record that carries the payload's old_content
C14_Witness ==
    /\ Len(files) = 2
    /\ files[1].path = <<"c">>
    /\ files[1].oldContent = <<"0">>
    /\ files[2].content = <<"2">>
    /\ files[2].oldContent = <<"0">>

\* C15: a file event that arrives while no file is focused sets the focus to
\* its path; and a ready status with no pending text adds no turn and makes
\* the session Live (file_create then ready: focus on the file, Live, no
\* assistant turn added).
C15_FirstFileEventFocuses ==
    [][/\ \A s \in 1..Len(sockets), f \in FileFrames \ {ReadyFrame} :
            (WsMessage(s, f) /\ selectedFile = << >>) => selectedFile' = f.path
       /\ \A s \in 1..Len(sockets) :
            (WsMessage(s, ReadyFrame) /\ aiResponse = << >>) =>
                (messages' = messages /\ SessionState' = "Live")]_vars

\* file_create "c" then ready, after a submit that typed nothing
C15_Witness ==
    /\ Len(files) = 1
    /\ files[1] = [key |-> <<"c">>, path |-> <<"c">>, content |-> <<"1">>,
                   oldContent |-> Undefined]
    /\ selectedFile = <<"c">>
    /\ SessionState = "Live"
    /\ Len(messages) = 1
    /\ messages[1].src = "notice"

\* C16: in every reachable state the ids of the turns of the Timeline are
\* pairwise distinct.
C16_TurnIdsDistinct ==
    \A i, j \in 1..Len(messages) : i # j => messages[i].id # messages[j].id

\* the session state an inert frame must leave alone
InertLeaves == UNCHANGED <<messages, files, aiResponse, selectedFile, isBuilding, isLive>>

\* C17: a frame that does not parse, a frame with an unrecognized event and a
\* status frame whose status is not "ready" can each be delivered on an open
\* connection only with the Timeline, file store, pending text, focus and
\* session state unchanged, and they leave the connection open, so that the
\* frames that follow are still delivered to the handler.
C17_InertFramesChangeNothing ==
    \A s \in 1..Len(sockets), f \in InertFrames :
        /\ ~ENABLED (WsMessage(s, f) /\ ~(InertLeaves /\ UNCHANGED sockets))
        /\ sockets[s].readyState = OPEN =>
              /\ ENABLED (WsMessage(s, f) /\ InertLeaves)
              /\ Len(messages) < MaxTurns => ENABLED (\E g \in LogFrames : WsMessage(s, g))

\* an open connection of a session that has something of everything to lose
C17_Witness ==
    /\ websocketRef # Null
    /\ sockets[websocketRef].readyState = OPEN
    /\ SessionState = "Building"
    /\ aiResponse # << >>
    /\ files # << >>
    /\ selectedFile # << >>
    /\ messages # << >>

\* C18: a transport error and a transport close leave the file store, the
\* focus, the session state and every turn already in the Timeline unchanged.
C18_ErrorAndCloseFreezeState ==
    [][\A s \in 1..Len(sockets) :
          (WsError(s) \/ WsClose(s)) =>
              /\ UNCHANGED <<files, selectedFile, isBuilding, isLive>>
              /\ Extends(messages, messages')]_vars

\* the held connection has closed without a reset and the session is intact
C18_Witness ==
    /\ websocketRef # Null
    /\ sockets[websocketRef].readyState = CLOSED
    /\ isBuilding
    /\ files # << >>
    /\ selectedFile # << >>
    /\ messages # << >>

\* C19: a connection has sent nothing while connecting; once open, the first
\* frame it sent is the Start frame carrying its target URL, and every other
\* frame it sent is a Modify frame (so exactly one Start, before every Modify).
C19_OutboundOrdering ==
    \A s \in 1..Len(sockets) :
        LET sent == sockets[s].sent
        IN  /\ sockets[s].readyState = CONNECTING => sent = << >>
            /\ sockets[s].readyState = OPEN => sent # << >>
            /\ sent # << >> =>
                  /\ sent[1] = [type |-> "start", body |-> sockets[s].url]
                  /\ \A i \in 2..Len(sent) : sent[i].type = "modification"

\* a connection to the URL found in the typed text that sent Start then Modify
C19_Witness ==
    \E s \in 1..Len(sockets) :
        /\ sockets[s].url = <<"h", "t", "t", "p", ":", "/", "/", "x">>
        /\ Len(sockets[s].sent) = 2
        /\ sockets[s].sent[1].type = "start"
        /\ sockets[s].sent[2].type = "modification"

\* the nodes of the tree whose row path is `path`
NodesAt(tree, path) ==
    { i \in 1..Len(tree.nodes) : CurrentPath(tree.nodes, i) = path }

\* the folder prefixes of a path: what precedes each of its separators
FolderPrefixes(path) ==
    { SubSeq(path, 1, q - 1) : q \in { r \in 1..Len(path) : path[r] = "/" } }

\* C21: in the tree projected from any stored path set no two nodes of one
\* level have the same name, so each folder prefix has one node that all the
\* paths under it share; after file_create a/b/c and file_create a/b/d the
\* tree is one root folder a, with one child folder b, with the file
\* children c and d in that order.
C21_ProjectorReusesNodes ==
    LET tree == fileTree(files)
    IN  /\ \A i, j \in 1..Len(tree.nodes) :
              (i # j /\ tree.nodes[i].parent = tree.nodes[j].parent) =>
                  tree.nodes[i].name # tree.nodes[j].name
        /\ \A k \in 1..Len(files) : \A prefix \in FolderPrefixes(files[k].key) :
              tree.ok => Cardinality(NodesAt(tree, prefix)) = 1
        /\ (/\ Len(files) = 2
            /\ files[1].key = <<"a", "/", "b", "/", "c">>
            /\ files[2].key = <<"a", "/", "b", "/", "d">>) =>
              tree = [ok |-> TRUE,
                      nodes |-> << [parent |-> Root, name |-> <<"a">>, type |-> "folder"],
                                   [parent |-> 1, name |-> <<"b">>, type |-> "folder"],
                                   [parent |-> 2, name |-> <<"c">>, type |-> "file"],
                                   [parent |-> 2, name |-> <<"d">>, type |-> "file"] >>]

\* the store after file_create a/b/c then file_create a/b/d
C21_Witness ==
    /\ Len(files) = 2
    /\ files[1].key = <<"a", "/", "b", "/", "c">>
    /\ files[2].key = <<"a", "/", "b", "/", "d">>

\* C23: for every stored path set the projection completes, the node reached
\* by walking a stored path's segments is a file node, and the node of each
\* of its folder prefixes is a folder node.
C23_KindsFollowSegmentPosition ==
    LET tree == fileTree(files)
    IN  /\ tree.ok
        /\ \A k \in 1..Len(files) :
              /\ NodesAt(tree, files[k].key) # {}
              /\ \A i \in NodesAt(tree, files[k].key) : tree.nodes[i].type = "file"
              /\ \A prefix \in FolderPrefixes(files[k].key) :
                    /\ NodesAt(tree, prefix) # {}
                    /\ \A i \in NodesAt(tree, prefix) : tree.nodes[i].type = "folder"

\* C22: the displayed sequence is the Timeline followed by one synthetic
\* assistant turn holding the pending text exactly when the pending text is
\* non-empty, it is the Timeline when the pending text is empty, and the
\* synthetic turn is never a turn of the Timeline.
C22_DisplayedIsTimelinePlusPending ==
    /\ Extends(messages, displayedMessages)
    /\ aiResponse = << >> => Len(displayedMessages) = Len(messages)
    /\ aiResponse # << >> =>
          /\ Len(displayedMessages) = Len(messages) + 1
          /\ IsTurn(displayedMessages[Len(messages) + 1], "assistant", aiResponse)
          /\ displayedMessages[Len(messages) + 1].id = "ai-streaming"
    /\ \A i \in 1..Len(messages) : messages[i].src # "streaming"

\* text is streaming after a log turn was appended
C22_Witness ==
    /\ aiResponse = <<"H", "e", "l">>
    /\ Len(messages) = 2
    /\ messages[2].src = "log"

\* the turns made from the pending text hold some text
FlushedTurnsNonEmpty ==
    \A i \in 1..Len(messages) : messages[i].src = "token" => messages[i].content # << >>

\* C24: with the pending text empty, handling a log frame appends exactly one
\* turn, the log message, and handling a ready status or a connection close
\* appends no turn; and no turn made from the pending text is ever empty.
C24_EmptyFlushIsNoOp ==
    /\ [][\A s \in 1..Len(sockets) :
            /\ \A f \in LogFrames :
                  (WsMessage(s, f) /\ aiResponse = << >>) =>
                      /\ Len(messages') = Len(messages) + 1
                      /\ Extends(messages, messages')
                      /\ IsTurn(messages'[Len(messages')], "assistant", f.message)
            /\ ((WsMessage(s, ReadyFrame) \/ WsClose(s)) /\ aiResponse = << >>) =>
                  messages' = messages]_vars
    /\ []FlushedTurnsNonEmpty

\* a session that never streamed a token saw a log frame, the ready status
\* and the close of its connection
C24_Witness ==
    /\ received = << >>
    /\ aiResponse = << >>
    /\ Len(messages) = 2
    /\ messages[2].src = "log"
    /\ isLive
    /\ websocketRef # Null
    /\ sockets[websocketRef].readyState = CLOSED

\* C25: handling an ai_token frame appends its token to the end of the
\* pending text and leaves the Timeline, file store, focus and session state
\* unchanged.
C25_TokenOnlyExtendsPending ==
    [][\A s \in 1..Len(sockets), f \in TokenFrames :
          WsMessage(s, f) =>
              /\ aiResponse' = aiResponse \o f.token
              /\ UNCHANGED <<messages, files, selectedFile, isBuilding, isLive>>]_vars

\* two tokens held in arrival order, beside a stored file and a turn
C25_Witness ==
    /\ aiResponse = <<"H", "e", "l", "l", "o">>
    /\ files # << >>
    /\ messages # << >>
    /\ SessionState = "Live"

\* C26: every step other than reset leaves the Timeline a prefix of the
\* Timeline after it.
C26_TimelineAppendOnly ==
    [][~HandleReset => Extends(messages, messages')]_vars

\* a full Timeline built by a submit, a modification and a log frame
C26_Witness ==
    /\ Len(messages) = MaxTurns
    /\ HasTurn("notice")
    /\ HasTurn("modification")
    /\ HasTurn("log")

\* the keys of the store
StoredPaths(m) == { m[i].key : i \in 1..Len(m) }

\* one entry per key, each holding a record whose path is the key
OneRecordPerPath ==
    /\ \A i, j \in 1..Len(files) : i # j => files[i].key # files[j].key
    /\ \A i \in 1..Len(files) : files[i].path = files[i].key

\* C27: every step other than reset keeps every stored path, the store holds
\* exactly one record per path and each record's path equals its key, and a
\* file event for path P changes no record but P's.
C27_StoreNeverLosesPaths ==
    /\ []OneRecordPerPath
    /\ [][/\ ~HandleReset => StoredPaths(files) \subseteq StoredPaths(files')
          /\ \A s \in 1..Len(sockets), f \in FileFrames \ {ReadyFrame} :
                WsMessage(s, f) =>
                    \A p \in StoredPaths(files) \ {f.path} :
                        /\ MapHas(files', p)
                        /\ MapGet(files', p) = MapGet(files, p)]_vars

\* the first stored path was updated after the second was created
C27_Witness ==
    /\ Len(files) = 2
    /\ files[1].content = <<"2">>
    /\ files[1].oldContent = Undefined
    /\ files[2].content = <<"1">>
    /\ files[2].oldContent = <<"1">>

\* the Modify frames a connection sent, and the turns modification submits
\* appended, each in order
ModifyFramesSent(sock) == SelectSeq(sock.sent, LAMBDA fr : fr.type = "modification")

ModificationTurns == SelectSeq(messages, LAMBDA turn : turn.src = "modification")

FocusIsKnownFile == selectedFile = << >> \/ MapHas(files, selectedFile)

\* C29: in every reachable state the focused path is unset or a key of the
\* file store, select-file being invoked with the paths of the file nodes of
\* the projected tree, and reset clears the store and the focus together.
C29_FocusRefersToKnownFile ==
    /\ []FocusIsKnownFile
    /\ [][HandleReset => (files' = << >> /\ selectedFile' = << >>)]_vars

\* two files each created once, and the explorer used to go back to the first
C29_Witness ==
    /\ Len(files) = 2
    /\ files[1].oldContent = Undefined
    /\ files[2].oldContent = Undefined
    /\ selectedFile = files[1].key
    /\ selectedFile = <<"a", "/", "b", "/", "c">>

\* C30: in every reachable state isLive implies isBuilding.
C30_LiveImpliesBuilding == isLive => isBuilding

\* a new session is connecting while the socket of the session that was
\* reset is still closing
C30_Witness ==
    /\ Len(sockets) = 2
    /\ sockets[1].readyState = CLOSING
    /\ sockets[2].readyState = CONNECTING
    /\ SessionState = "Building"
====
